---------------------------- MODULE Spec2Model ----------------------------
(***************************************************************************)
(* A model of src/julia.py: the escape-time evaluator julia_quadratic,     *)
(* the per-frame grid computation animate, and the driver generate.        *)
(*                                                                         *)
(* Numbers.  Reals are modelled by integers.  The configurations drawn in  *)
(* Init are those whose linspace grids fall on integers, the radius init_r *)
(* is an integer and the angle sequence falls on quarter turns, so that    *)
(* z**2 + c and abs(z) > 4 are computed exactly as the floating-point code *)
(* computes them (cos and sin of a quarter turn differ from 0, 1, -1 by    *)
(* less than 1e-15 in the code; the model takes the exact values).         *)
(* Angles are kept in quarter turns: 2*pi is QuarterTurns.                 *)
(*                                                                         *)
(* The library.  animate is a callback: FuncAnimation and anim.save decide *)
(* which frames of range(frames) it is called with, how often and in which *)
(* order.  The model leaves that choice open.                              *)
(***************************************************************************)
EXTENDS Integers, Sequences, FiniteSets

---------------------------------------------------------------------------
(* Bounds of the model                                                     *)

MaxThreshold == 3
MaxFrames == 5
MaxCalls == 2
MaxDensity == 2
MaxExtent == 2
MaxCoord == 5
MaxConst == 2

---------------------------------------------------------------------------
(* Program constants                                                       *)

EscapeRadius == 4
QuarterTurns == 4

---------------------------------------------------------------------------
(* Complex arithmetic on pairs <<re, im>>                                  *)

CSquare(z) == <<z[1] * z[1] - z[2] * z[2], 2 * z[1] * z[2]>>

CAdd(z, c) == <<z[1] + c[1], z[2] + c[2]>>

AbsSquared(z) == z[1] * z[1] + z[2] * z[2]

\* line 43: z = z ** 2 + c
Step(z, c) == CAdd(CSquare(z), c)

Diverged_ge(z) == AbsSquared(z) >= EscapeRadius * EscapeRadius

\* line 45: abs(z) > 4.
Diverged(z) == AbsSquared(z) > EscapeRadius * EscapeRadius

---------------------------------------------------------------------------
(* julia_quadratic, lines 22-47                                            *)

NotReturned == [returned |-> FALSE, value |-> 0]

Returned(v) == [returned |-> TRUE, value |-> v]

RECURSIVE for_loop(_, _, _, _)
\* lines 42-46: what the loop returns from inside its body, NotReturned
\* when it runs to its end (range(threshold) is empty when threshold <= 0)
for_loop(z, c, i, threshold) ==
    IF i >= threshold THEN NotReturned
    ELSE LET z1 == Step(z, c)
         IN  IF Diverged(z1) THEN Returned(i)
             ELSE for_loop(z1, c, i + 1, threshold)

julia_quadratic_ret_threshold(zx, zy, cx, cy, threshold) ==
    LET r == for_loop(<<zx, zy>>, <<cx, cy>>, 0, threshold)
    IN  IF r.returned THEN r.value ELSE threshold

julia_quadratic_ret_next(zx, zy, cx, cy, threshold) ==
    LET r == for_loop(<<zx, zy>>, <<cx, cy>>, 0, threshold)
    IN  IF r.returned THEN r.value + 1 ELSE threshold - 1

\* lines 38-47
julia_quadratic(zx, zy, cx, cy, threshold) ==
    LET r == for_loop(<<zx, zy>>, <<cx, cy>>, 0, threshold)
    IN  IF r.returned THEN r.value ELSE threshold - 1

---------------------------------------------------------------------------
(* numpy helpers used by generate and animate                              *)

\* np.linspace(start, stop, num) for num >= 0: num evenly spaced samples,
\* both endpoints included; a single sample is start
linspace(start, stop, num) ==
    [k \in 0 .. num - 1 |->
        IF num = 1 THEN start
        ELSE start + (k * (stop - start)) \div (num - 1)]

\* the samples of linspace(start, stop, num) are integers
LinspaceExact(start, stop, num) ==
    num <= 1 \/ \A k \in 0 .. num - 1 : (k * (stop - start)) % (num - 1) = 0

len(arr) == Cardinality(DOMAIN arr)

\* np.cos, np.sin of an angle given in quarter turns
cos(q) == CASE q % QuarterTurns = 0 -> 1
            [] q % QuarterTurns = 1 -> 0
            [] q % QuarterTurns = 2 -> -1
            [] q % QuarterTurns = 3 -> 0

sin(q) == CASE q % QuarterTurns = 0 -> 0
            [] q % QuarterTurns = 1 -> 1
            [] q % QuarterTurns = 2 -> 0
            [] q % QuarterTurns = 3 -> -1

\* values an array from np.empty may hold before it is written
Garbage == {-7, 1}

Cells(w, h) == (0 .. w - 1) \X (0 .. h - 1)

\* np.empty((w, h)): shape (w, h), arbitrary contents
empty(w, h) == {[shape |-> <<w, h>>, data |-> d] : d \in [Cells(w, h) -> Garbage]}

T_identity(arr) == arr

\* X.T
T(arr) ==
    [shape |-> <<arr.shape[2], arr.shape[1]>>,
     data  |-> [p \in Cells(arr.shape[2], arr.shape[1]) |-> arr.data[<<p[2], p[1]>>]]]

---------------------------------------------------------------------------
(* State                                                                   *)

VARIABLES
    conf,       \* the configuration dictionary given to Julia(...)
    pc,         \* where generate is: Uninitialized, Generating, Done, Raised
    raised,     \* the exception that ended the run, "none" if none
    re, im, a,  \* self.re, self.im, self.a
    frame,      \* the argument of the current (or last) call of animate
    apc,        \* where animate is: idle, loop, show
    i, j,       \* animate's i (its parameter, then the row index) and j
    cx, cy,     \* animate's constant
    X,          \* animate's array
    emitted,    \* the calls of ax.imshow so far: frame index and image
    abortAt,    \* the frame before which an abort was signalled, -1 if none
    args,       \* the arguments of a direct call of julia_quadratic
    result      \* what that call did: kind none, return or raise

vars == <<conf, pc, raised, re, im, a, frame, apc, i, j, cx, cy, X, emitted,
          abortAt, args, result>>

runVars == <<conf, pc, raised, re, im, a, frame, apc, i, j, cx, cy, X, emitted>>

Starts == {-2, 0}

\* values of init_r: integers small enough that the rounding of
\* init_r * sin and init_r * cos at a quarter turn moves no iterate of a
\* grid point across the bound
Radii == {0, 1, 2}

\* the configurations of the model: those whose grids and angles are exact
Configs ==
    {c \in [x_start : Starts, y_start : Starts,
            width : 1 .. MaxExtent, height : 1 .. MaxExtent,
            init_r : Radii, density : -1 .. MaxDensity,
            threshold : 0 .. MaxThreshold, frames : -1 .. MaxFrames] :
        /\ LinspaceExact(c.x_start, c.x_start + c.width, c.width * c.density)
        /\ LinspaceExact(c.y_start, c.y_start + c.height, c.height * c.density)
        /\ LinspaceExact(0, QuarterTurns, c.frames)}

NoArray == [shape |-> <<0, 0>>, data |-> [p \in Cells(0, 0) |-> 0]]

NoArgs == [zx |-> 0, zy |-> 0, cx |-> 0, cy |-> 0, threshold |-> 0]

NoResult == [kind |-> "none", value |-> 0]

\* lines 9-19 and 105-118: the object after construction, generate not yet run
RunInit ==
    /\ pc = "Uninitialized"
    /\ raised = "none"
    /\ re = linspace(0, 0, 0)
    /\ im = linspace(0, 0, 0)
    /\ a = linspace(0, 0, 0)
    /\ frame = 0
    /\ apc = "idle"
    /\ i = 0
    /\ j = 0
    /\ cx = 0
    /\ cy = 0
    /\ X = NoArray
    /\ emitted = <<>>

Init ==
    /\ conf \in Configs
    /\ RunInit
    /\ abortAt = -1
    /\ args = NoArgs
    /\ result = NoResult

---------------------------------------------------------------------------
(* generate, lines 73-102                                                  *)

\* lines 80 and 85: the number of samples along one axis
GridNum(extent, density) == extent * density

\* lines 77-88: np.linspace raises ValueError for a negative num; the three
\* calls run in order, so self.re (and self.im) are assigned when a later
\* call raises
GenerateRaise ==
    /\ pc = "Uninitialized"
    /\ \/ GridNum(conf.width, conf.density) < 0
       \/ GridNum(conf.height, conf.density) < 0
       \/ conf.frames < 0
    /\ re' = IF GridNum(conf.width, conf.density) < 0 THEN re
             ELSE linspace(conf.x_start, conf.x_start + conf.width,
                           GridNum(conf.width, conf.density))
    /\ im' = IF \/ GridNum(conf.width, conf.density) < 0
                \/ GridNum(conf.height, conf.density) < 0
             THEN im
             ELSE linspace(conf.y_start, conf.y_start + conf.height,
                           GridNum(conf.height, conf.density))
    /\ pc' = "Raised"
    /\ raised' = "ValueError"
    /\ UNCHANGED <<conf, a, frame, apc, i, j, cx, cy, X, emitted,
                   abortAt, args, result>>

\* lines 77-91: the grid, the angles, the figure and the axes; from here
\* on FuncAnimation (lines 93-99) and anim.save (line 100) hold the callback
GenerateSetup ==
    /\ pc = "Uninitialized"
    /\ GridNum(conf.width, conf.density) >= 0
    /\ GridNum(conf.height, conf.density) >= 0
    /\ conf.frames >= 0
    /\ re' = linspace(conf.x_start, conf.x_start + conf.width,
                      GridNum(conf.width, conf.density))
    /\ im' = linspace(conf.y_start, conf.y_start + conf.height,
                      GridNum(conf.height, conf.density))
    /\ a' = linspace(0, QuarterTurns, conf.frames)
    /\ frame' = 0
    /\ pc' = "Generating"
    /\ UNCHANGED <<conf, raised, apc, i, j, cx, cy, X, emitted,
                   abortAt, args, result>>

\* lines 100-102: anim.save returns; how many calls of animate it and the
\* constructor made before is the library's choice
GenerateDone ==
    /\ pc = "Generating"
    /\ apc = "idle"
    /\ pc' = "Done"
    /\ UNCHANGED <<conf, raised, re, im, a, frame, apc, i, j, cx, cy, X,
                   emitted, abortAt, args, result>>

---------------------------------------------------------------------------
(* animate, lines 50-71                                                    *)

constant_swapped(init_r, angle) == <<init_r * sin(angle), init_r * cos(angle)>>

\* lines 62-63: the constant of a frame from its angle
constant(init_r, angle) == <<init_r * cos(angle), init_r * sin(angle)>>

\* line 50: the library calls the callback given on line 95 with a frame
\* of frames=self.frames (line 96), that is of range(frames); i is the
\* parameter.  Which frame, how often and in which order is decided by
\* FuncAnimation and anim.save (lines 93-100), not by this program: any
\* frame of range(frames) may come, at most MaxCalls calls in the model
AnimateCall ==
    /\ pc = "Generating"
    /\ apc = "idle"
    /\ Len(emitted) < MaxCalls
    /\ \E k \in 0 .. conf.frames - 1 :
          /\ frame' = k
          /\ i' = k
    /\ apc' = "body"
    /\ UNCHANGED <<conf, pc, raised, re, im, a, j, cx, cy, X, emitted,
                   abortAt, args, result>>

\* lines 59-67: the fresh array, the constant from self.a[i], and the loop
\* headers, which rebind i to the first row index when there is a row
AnimateBody ==
    /\ apc = "body"
    /\ X' \in empty(len(re), len(im))
    /\ cx' = constant(conf.init_r, a[i])[1]
    /\ cy' = constant(conf.init_r, a[i])[2]
    /\ i' = IF len(re) > 0 THEN 0 ELSE i
    /\ j' = IF len(re) > 0 /\ len(im) > 0 THEN 0 ELSE j
    /\ apc' = IF len(re) > 0 /\ len(im) > 0 THEN "loop" ELSE "show"
    /\ UNCHANGED <<conf, pc, raised, re, im, a, frame, emitted,
                   abortAt, args, result>>

\* lines 66-68: one pass of the inner loop body, then the loop headers
AnimateCell ==
    /\ apc = "loop"
    /\ X' = [X EXCEPT !.data[<<i, j>>] =
                julia_quadratic(re[i], im[j], cx, cy, conf.threshold)]
    /\ IF j + 1 < len(im)
         THEN /\ j' = j + 1
              /\ UNCHANGED <<i, apc>>
         ELSE IF i + 1 < len(re)
              THEN /\ i' = i + 1
                   /\ j' = 0
                   /\ UNCHANGED apc
              ELSE /\ apc' = "show"
                   /\ UNCHANGED <<i, j>>
    /\ UNCHANGED <<conf, pc, raised, re, im, a, frame, cx, cy, emitted,
                   abortAt, args, result>>

\* lines 70-71: the image handed to the renderer, and the return
AnimateShow ==
    /\ apc = "show"
    /\ emitted' = Append(emitted, [index |-> frame, img |-> T(X)])
    /\ apc' = "idle"
    /\ UNCHANGED <<conf, pc, raised, re, im, a, frame, i, j, cx, cy, X,
                   abortAt, args, result>>

Next ==
    \/ GenerateRaise
    \/ GenerateSetup
    \/ AnimateCall
    \/ AnimateBody
    \/ AnimateCell
    \/ AnimateShow
    \/ GenerateDone

Spec == Init /\ [][Next]_vars

---------------------------------------------------------------------------
(* A direct call of julia_quadratic on arguments drawn from bounded sets   *)

EvalCoords == -MaxCoord .. MaxCoord

EvalConsts == -MaxConst .. MaxConst

\* real parts of the constant: the small ones, one that sends a start of
\* magnitude MaxCoord to 0, and one on each side of the start's square
EvalConstsX == EvalConsts \cup {-(MaxCoord * MaxCoord), -12, MaxCoord}

EvalArgs ==
    [zx : EvalCoords, zy : EvalCoords, cx : EvalConstsX, cy : EvalConsts,
     threshold : -1 .. MaxThreshold + 1]

NoConf ==
    [x_start |-> 0, y_start |-> 0, width |-> 0, height |-> 0, init_r |-> 0,
     density |-> 0, threshold |-> 0, frames |-> 0]

InitEval ==
    /\ conf = NoConf
    /\ RunInit
    /\ abortAt = -1
    /\ args \in EvalArgs
    /\ result = NoResult

\* lines 22-47: the call returns; the function has no raise
Evaluate ==
    /\ result.kind = "none"
    /\ result' = [kind |-> "return",
                  value |-> julia_quadratic(args.zx, args.zy, args.cx,
                                            args.cy, args.threshold)]
    /\ UNCHANGED <<runVars, abortAt, args>>

NextEval == Evaluate

SpecEval == InitEval /\ [][NextEval]_vars

---------------------------------------------------------------------------
(* The run with an abort signalled between frames (spec section 5)         *)

\* the environment signals an abort between frames, before the next frame
\* begins: k frames have been emitted, k < frames
SignalAbort ==
    /\ pc \in {"Uninitialized", "Generating"}
    /\ apc = "idle"
    /\ Len(emitted) < conf.frames
    /\ abortAt = -1
    /\ abortAt' = Len(emitted)
    /\ UNCHANGED <<runVars, args, result>>

NextCancel ==
    \/ Next
    \/ SignalAbort

SpecCancel == Init /\ [][NextCancel]_vars

---------------------------------------------------------------------------
(* The statements checked.  The orbit of the specification is defined here *)
(* on its own, without the evaluator's early return.                       *)

RECURSIVE OrbitAt(_, _, _)
\* the n-th iterate of z <- z^2 + c from z, n >= 0
OrbitAt(z, c, n) ==
    IF n = 0 THEN z
    ELSE LET w == OrbitAt(z, c, n - 1)
         IN  <<w[1] * w[1] - w[2] * w[2] + c[1], 2 * w[1] * w[2] + c[2]>>

\* magnitude strictly greater than 4
Exceeds(z) == z[1] * z[1] + z[2] * z[2] > 16

ArgZ == <<args.zx, args.zy>>

ArgC == <<args.cx, args.cy>>

\* the iterate computed in 0-based iteration n has magnitude > 4
EscapesAt(n) == Exceeds(OrbitAt(ArgZ, ArgC, n + 1))

\* no iteration before n produced an iterate of magnitude > 4
NoEscapeBefore(n) == \A m \in 0 .. n - 1 : ~EscapesAt(m)

Called == result.kind # "none"

\* C1: for threshold >= 1 the call returns an integer r, 0 <= r <= threshold-1
C1_ResultInRange ==
    (Called /\ args.threshold >= 1) =>
        /\ result.kind = "return"
        /\ result.value \in 0 .. args.threshold - 1

C1_Witness ==
    /\ Called
    /\ args.threshold >= 2
    /\ result.value = args.threshold - 1
    /\ NoEscapeBefore(args.threshold)

\* C2 as stated: a start of magnitude > 4 gives 0 for every constant and
\* every threshold >= 1
C2_Original ==
    (Called /\ Exceeds(ArgZ) /\ args.threshold >= 1) => result.value = 0

\* C2 amended: a start of magnitude > 4 gives 0 exactly when the first
\* iterate z0^2 + c has magnitude > 4 or threshold = 1; the first iterate
\* has magnitude > 4 whenever |c| <= 12
C2_StartOutside ==
    (Called /\ Exceeds(ArgZ) /\ args.threshold >= 1) =>
        /\ result.value = 0 <=> (EscapesAt(0) \/ args.threshold = 1)
        /\ args.cx * args.cx + args.cy * args.cy <= 144 => result.value = 0

C2_Witness ==
    /\ Called
    /\ Exceeds(ArgZ)
    /\ OrbitAt(ArgZ, ArgC, 1) = <<0, 0>>
    /\ args.threshold >= 2
    /\ result.value = 1

\* C3 as stated: a call with threshold < 1 fails and returns no number
C3_Original ==
    (Called /\ args.threshold < 1) => result.kind = "raise"

\* C8: for threshold >= 1 the result is the smallest 0-based iteration n <
\* threshold whose iterate has magnitude > 4, and threshold-1 when there
\* is none; (0,0,0,0,50) gives 49 and (0,0,5,0,50) gives 0
C8_FirstEscape ==
    /\ (Called /\ args.threshold >= 1) =>
          /\ \A n \in 0 .. args.threshold - 1 :
                (NoEscapeBefore(n) /\ EscapesAt(n)) => result.value = n
          /\ NoEscapeBefore(args.threshold) => result.value = args.threshold - 1
    /\ julia_quadratic(0, 0, 0, 0, 50) = 49
    /\ julia_quadratic(0, 0, 5, 0, 50) = 0

C8_Witness ==
    /\ Called
    /\ args.threshold >= 3
    /\ result.value = 1
    /\ ~EscapesAt(0)
    /\ EscapesAt(1)
    /\ OrbitAt(ArgZ, ArgC, 1)[1] = 4
    /\ OrbitAt(ArgZ, ArgC, 1)[2] = 0

\* C10 as stated: the result is threshold-1 if and only if none of the
\* threshold iterates had magnitude > 4
C10_Original ==
    (Called /\ args.threshold >= 1) =>
        (result.value = args.threshold - 1 <=> NoEscapeBefore(args.threshold))

Malformed == conf.threshold < 1 \/ conf.density <= 0 \/ conf.frames <= 0

Valid == conf.threshold >= 1 /\ conf.density >= 1 /\ conf.frames >= 1

W == conf.width * conf.density

H == conf.height * conf.density

\* C4 as stated: from a malformed configuration no state is reachable in
\* which a frame is being computed or has been emitted
C4_Original ==
    Malformed => (apc = "idle" /\ emitted = <<>>)

InRange(arr) ==
    \A p \in DOMAIN arr.data : arr.data[p] \in 0 .. conf.threshold - 1

GridBuilt == pc \in {"Generating", "Done"}

\* C6 as stated: the grid has W and H samples and every emitted array has
\* shape (W, H), cells in [0, threshold-1]
C6_Original ==
    (Valid /\ GridBuilt) =>
        /\ len(re) = W
        /\ len(im) = H
        /\ \A n \in 1 .. Len(emitted) :
              emitted[n].img.shape = <<W, H>> /\ InRange(emitted[n].img)

\* C6 amended: the grid has W and H samples, the array built for a frame
\* has shape (W, H), and the array emitted is its transpose, of shape
\* (H, W), every cell an integer in [0, threshold-1]
C6_Shapes ==
    (Valid /\ GridBuilt) =>
        /\ len(re) = W
        /\ len(im) = H
        /\ apc \in {"loop", "show"} => X.shape = <<W, H>>
        /\ apc = "show" => InRange(X)
        /\ \A n \in 1 .. Len(emitted) :
              emitted[n].img.shape = <<H, W>> /\ InRange(emitted[n].img)

C6_Witness ==
    /\ Valid
    /\ W # H
    /\ Len(emitted) >= 2
    /\ emitted[2].img.shape = <<H, W>>

Terminal == pc \in {"Done", "Raised", "Aborted"}

\* C7 as stated: after an abort signalled before frame k of a valid run,
\* k frames having been emitted, nothing of frame k is computed or emitted
\* and the run ends Aborted with exactly k frames emitted
C7_Original ==
    (Valid /\ abortAt >= 0) =>
        /\ apc = "idle"
        /\ Len(emitted) = abortAt
        /\ Terminal => pc = "Aborted"

\* the cell (p, q) of frame k as the specification defines it
CellOf(k, p, q) ==
    julia_quadratic(re[p], im[q], conf.init_r * cos(a[k]),
                    conf.init_r * sin(a[k]), conf.threshold)

\* row-major: cell (p, q) is written before the loops reach (i, j)
WrittenBefore(p, q) == p < i \/ (p = i /\ q < j)

\* C9: in frame k every cell X[p, q] is evaluate(re[p], im[q], c_k) with
\* c_k from angle[k]; all cells are written when the frame is emitted, and
\* the emitted array is the transpose of X
C9_CellsOfFrame ==
    /\ apc = "loop" =>
          \A p \in 0 .. len(re) - 1, q \in 0 .. len(im) - 1 :
              WrittenBefore(p, q) => X.data[<<p, q>>] = CellOf(frame, p, q)
    /\ apc = "show" =>
          \A p \in 0 .. len(re) - 1, q \in 0 .. len(im) - 1 :
              X.data[<<p, q>>] = CellOf(frame, p, q)
    /\ \A n \in 1 .. Len(emitted) :
          /\ emitted[n].img.shape = <<len(im), len(re)>>
          /\ \A p \in 0 .. len(re) - 1, q \in 0 .. len(im) - 1 :
                emitted[n].img.data[<<q, p>>] = CellOf(emitted[n].index, p, q)

C9_Witness ==
    /\ Len(emitted) >= 2
    /\ len(re) = 2
    /\ len(im) = 2
    /\ emitted[1].index = 0
    /\ emitted[2].index = 1
    /\ emitted[1].img # emitted[2].img
    /\ emitted[2].img.data[<<0, 1>>] # emitted[2].img.data[<<1, 0>>]
    /\ emitted[2].img.data[<<1, 0>>] = CellOf(1, 0, 1)

=============================================================================
